---------------------------- MODULE Spec2Model ----------------------------
(***************************************************************************)
(* FHIR CapabilityStatement Viewer (src/app.js): the loader pipeline of    *)
(* class FHIRCapabilityViewer as a state machine.                          *)
(*                                                                         *)
(* JavaScript strings are sequences of one-character strings, so that      *)
(* trim, includes, encodeURIComponent, URL parsing and JSON.parse are      *)
(* computed on the characters, as the code computes them.                  *)
(***************************************************************************)
EXTENDS Integers, Sequences, FiniteSets, TLC

(***************************************************************************)
(* Characters                                                              *)
(***************************************************************************)
Lower == {"a","b","c","d","e","f","g","h","i","j","k","l","m","n","o","p","q","r","s","t","u","v","w","x","y","z"}

Upper == {"A","B","C","D","E","F","G","H","I","J","K","L","M","N","O","P","Q","R","S","T","U","V","W","X","Y","Z"}

Alpha == Lower \cup Upper

Digit == {"0","1","2","3","4","5","6","7","8","9"}

HexDigit == Digit \cup {"A","B","C","D","E","F","a","b","c","d","e","f"}

\* String.prototype.trim strips white space; the inputs of the model use the
\* space character as their only white space.
WhiteSpace == {" "}

(***************************************************************************)
(* String operations of the JavaScript runtime used by app.js              *)
(***************************************************************************)
RECURSIVE TrimStart(_)
TrimStart(s) == IF s # <<>> /\ Head(s) \in WhiteSpace THEN TrimStart(Tail(s)) ELSE s

RECURSIVE TrimEnd(_)
TrimEnd(s) == IF s # <<>> /\ s[Len(s)] \in WhiteSpace THEN TrimEnd(SubSeq(s, 1, Len(s) - 1)) ELSE s

\* urlInput.value.trim()
Trim(s) == TrimEnd(TrimStart(s))

\* s.startsWith(p, at i)
StartsWithAt(s, p, i) == /\ i + Len(p) - 1 <= Len(s)
                         /\ \A k \in 1..Len(p) : s[i + k - 1] = p[k]

\* s.includes(p)
Includes(s, p) == \E i \in 1..(Len(s) + 1) : StartsWithAt(s, p, i)

DigitChars == <<"0","1","2","3","4","5","6","7","8","9">>

\* Number to its decimal digits (template-literal interpolation of a number).
RECURSIVE NumToStr(_)
NumToStr(n) == IF n < 10 THEN <<DigitChars[n + 1]>> ELSE NumToStr(n \div 10) \o <<DigitChars[(n % 10) + 1]>>

DigitValue(c) == CHOOSE n \in 0..9 : DigitChars[n + 1] = c

\* Decimal digits to their number.
RECURSIVE StrToNum(_)
StrToNum(s) == IF s = <<>> THEN 0 ELSE 10 * StrToNum(SubSeq(s, 1, Len(s) - 1)) + DigitValue(s[Len(s)])

LowerCase(c) ==
  LET U == <<"A","B","C","D","E","F","G","H","I","J","K","L","M","N","O","P","Q","R","S","T","U","V","W","X","Y","Z">>
      L == <<"a","b","c","d","e","f","g","h","i","j","k","l","m","n","o","p","q","r","s","t","u","v","w","x","y","z">>
  IN  IF c \in Upper THEN L[CHOOSE k \in 1..26 : U[k] = c] ELSE c

ToLowerCase(s) == [k \in 1..Len(s) |-> LowerCase(s[k])]

\* Index of the first character of s that is in set cs, or Len(s) + 1.
FirstIn(s, cs) == IF \E i \in 1..Len(s) : s[i] \in cs THEN CHOOSE i \in 1..Len(s) : s[i] \in cs /\ \A k \in 1..(i - 1) : s[k] \notin cs ELSE Len(s) + 1

\* Index of the last character of s that is in set cs, or 0.
LastIn(s, cs) == IF \E i \in 1..Len(s) : s[i] \in cs THEN CHOOSE i \in 1..Len(s) : s[i] \in cs /\ \A k \in (i + 1)..Len(s) : s[k] \notin cs ELSE 0

(***************************************************************************)
(* encodeURIComponent / decodeURIComponent / URLSearchParams decoding,     *)
(* on the ASCII characters the model's strings are made of.                *)
(***************************************************************************)
\* Characters encodeURIComponent leaves alone: A-Z a-z 0-9 - _ . ! ~ * ' ( )
UriUnreserved == Alpha \cup Digit \cup {"-", "_", ".", "!", "~", "*", "'", "(", ")"}

\* The %XX escape of the other ASCII characters that occur in the model.
PercentEscape(c) ==
  CASE c = " "  -> <<"%","2","0">>
    [] c = "\"" -> <<"%","2","2">>
    [] c = "#"  -> <<"%","2","3">>
    [] c = "%"  -> <<"%","2","5">>
    [] c = "&"  -> <<"%","2","6">>
    [] c = "+"  -> <<"%","2","B">>
    [] c = ","  -> <<"%","2","C">>
    [] c = "/"  -> <<"%","2","F">>
    [] c = ":"  -> <<"%","3","A">>
    [] c = "<"  -> <<"%","3","C">>
    [] c = "="  -> <<"%","3","D">>
    [] c = ">"  -> <<"%","3","E">>
    [] c = "?"  -> <<"%","3","F">>
    [] c = "{"  -> <<"%","7","B">>
    [] c = "}"  -> <<"%","7","D">>

\* The concatenation of a sequence of strings.
RECURSIVE Concat(_)
Concat(ss) ==
  IF ss = <<>> THEN <<>>
  ELSE IF Len(ss) = 1 THEN ss[1]
  ELSE Concat(SubSeq(ss, 1, Len(ss) \div 2)) \o Concat(SubSeq(ss, Len(ss) \div 2 + 1, Len(ss)))

encodeURIComponent(s) == Concat([i \in 1..Len(s) |-> IF s[i] \in UriUnreserved THEN <<s[i]>> ELSE PercentEscape(s[i])])

\* The character a %XX escape stands for (the escapes PercentEscape produces,
\* in either letter case, and the escapes of the letters A and a).
Escaped == {" ", "\"", "#", "%", "&", "+", ",", "/", ":", "<", "=", ">", "?", "{", "}"}

UpperHex(c) ==
  CASE c = "a" -> "A" [] c = "b" -> "B" [] c = "c" -> "C" [] c = "d" -> "D" [] c = "e" -> "E" [] c = "f" -> "F" [] OTHER -> c

Unescape(h1, h2) ==
  LET x == <<"%", UpperHex(h1), UpperHex(h2)>>
  IN  IF \E c \in Escaped : PercentEscape(c) = x THEN CHOOSE c \in Escaped : PercentEscape(c) = x
      ELSE IF x = <<"%","4","1">> THEN "A"
      ELSE IF x = <<"%","6","1">> THEN "a"
      ELSE "?"

\* A %XX escape starts at s[i].
EscapeAt(s, i) == i >= 1 /\ i + 2 <= Len(s) /\ s[i] = "%" /\ s[i + 1] \in HexDigit /\ s[i + 2] \in HexDigit

\* s with its %XX escapes decoded, a % that starts none kept as it is, and
\* each other character c replaced by plain[c] where that is defined.
Unescaped(s, plain) ==
  Concat([i \in 1..Len(s) |->
            IF EscapeAt(s, i) THEN <<Unescape(s[i + 1], s[i + 2])>>
            ELSE IF EscapeAt(s, i - 1) \/ EscapeAt(s, i - 2) THEN <<>>
            ELSE IF s[i] \in DOMAIN plain THEN <<plain[s[i]]>>
            ELSE <<s[i]>>])

\* decodeURIComponent(s): ok = FALSE when it throws URIError (a % that is not
\* followed by two hexadecimal digits).
decodeURIComponent(s) ==
  IF \A i \in 1..Len(s) : s[i] = "%" => EscapeAt(s, i)
    THEN [ok |-> TRUE, s |-> Unescaped(s, [c \in {} |-> c])]
    ELSE [ok |-> FALSE, s |-> <<>>]

\* The decoding URLSearchParams applies to a name or a value: + is a space,
\* %XX is decoded, a malformed % is kept as it is.
FormDecode(s) == Unescaped(s, [c \in {"+"} |-> " "])

\* new URLSearchParams(search).get(name): the decoded value of the first
\* name=value pair of the query string with that name, or <<"null">> tagged
\* absent. search is the query without its leading "?".
RECURSIVE SearchParamsGet(_, _)
SearchParamsGet(search, name) ==
  IF search = <<>> THEN [present |-> FALSE, value |-> <<>>]
  ELSE LET amp  == FirstIn(search, {"&"})
           pair == SubSeq(search, 1, amp - 1)
           rest == SubSeq(search, amp + 1, Len(search))
           eq   == FirstIn(pair, {"="})
           n    == FormDecode(SubSeq(pair, 1, eq - 1))
           v    == FormDecode(SubSeq(pair, eq + 1, Len(pair)))
       IN  IF pair # <<>> /\ n = name THEN [present |-> TRUE, value |-> v] ELSE SearchParamsGet(rest, name)

(***************************************************************************)
(* new URL(string) without a base: does the WHATWG URL parser accept it?   *)
(* Modelled for ASCII input without tabs, newlines or brackets.            *)
(***************************************************************************)
SchemeChars == Alpha \cup Digit \cup {"+", "-", "."}

\* Length of the scheme of s (the characters before the first ":"), or 0 when
\* s does not start with a scheme.
SchemeLen(s) ==
  LET c == FirstIn(s, {":"})
  IN  IF s # <<>> /\ s[1] \in Alpha /\ c <= Len(s) /\ \A k \in 1..(c - 1) : s[k] \in SchemeChars THEN c - 1 ELSE 0

SpecialSchemes == { <<"h","t","t","p">>, <<"h","t","t","p","s">>, <<"f","t","p">>, <<"w","s">>, <<"w","s","s">>, <<"f","i","l","e">> }

ForbiddenHostChars == {" ", "#", "/", ":", "<", ">", "?", "@", "[", "\\", "]", "^", "|"}

ForbiddenDomainChars == ForbiddenHostChars \cup {"%"}

RECURSIVE TrimZeros(_)
TrimZeros(p) == IF p # <<>> /\ Head(p) = "0" THEN TrimZeros(Tail(p)) ELSE p

\* A port is empty or decimal digits of a number below 2^16.
ValidPort(p) == /\ \A k \in 1..Len(p) : p[k] \in Digit
                /\ Len(TrimZeros(p)) <= 5
                /\ StrToNum(TrimZeros(p)) <= 65535

\* The labels of a host, split at ".".
RECURSIVE Labels(_)
Labels(h) == LET d == FirstIn(h, {"."}) IN IF d > Len(h) THEN <<h>> ELSE <<SubSeq(h, 1, d - 1)>> \o Labels(SubSeq(h, d + 1, Len(h)))

IsNumber(l) == l # <<>> /\ \A k \in 1..Len(l) : l[k] \in Digit

\* 256^n for n <= 3.
RECURSIVE Pow256(_)
Pow256(n) == IF n = 0 THEN 1 ELSE 256 * Pow256(n - 1)

\* The IPv4 parser, run when the last label of a domain is a number: at most
\* four parts, all numbers, each below 256 but the last, which fills the rest
\* (below 256^(5-n)). Numbers are modelled up to nine digits, all below 256^4.
ValidIPv4(h) ==
  LET ls0 == Labels(h)
      ls  == IF Len(ls0) > 1 /\ ls0[Len(ls0)] = <<>> THEN SubSeq(ls0, 1, Len(ls0) - 1) ELSE ls0
      n   == Len(ls)
  IN  /\ n <= 4
      /\ \A k \in 1..n : IsNumber(ls[k]) /\ Len(TrimZeros(ls[k])) <= 9
      /\ \A k \in 1..(n - 1) : StrToNum(TrimZeros(ls[k])) <= 255
      /\ n > 1 => StrToNum(TrimZeros(ls[n])) < Pow256(5 - n)

EndsInNumber(h) ==
  LET ls0 == Labels(h)
      ls  == IF Len(ls0) > 1 /\ ls0[Len(ls0)] = <<>> THEN SubSeq(ls0, 1, Len(ls0) - 1) ELSE ls0
  IN  IsNumber(ls[Len(ls)])

\* Percent-decoding of a host: %XX is decoded, a malformed % is kept.
PercentDecode(s) == Unescaped(s, [c \in {} |-> c])

\* The host parser for a special scheme: percent-decode, reject forbidden
\* domain characters, and parse a host that ends in a number as IPv4.
ValidDomain(h) ==
  LET d == PercentDecode(h)
  IN  /\ d # <<>>
      /\ \A k \in 1..Len(d) : d[k] \notin ForbiddenDomainChars
      /\ EndsInNumber(d) => ValidIPv4(d)

\* The opaque-host parser of the other schemes.
ValidOpaqueHost(h) == \A k \in 1..Len(h) : h[k] \notin ForbiddenHostChars

\* authority = [userinfo@]host[:port]
ValidAuthority(a, special) ==
  LET at       == LastIn(a, {"@"})
      hostport == SubSeq(a, at + 1, Len(a))
      colon    == FirstIn(hostport, {":"})
      host     == SubSeq(hostport, 1, colon - 1)
      port     == SubSeq(hostport, colon + 1, Len(hostport))
  IN  /\ IF special THEN ValidDomain(host) ELSE ValidOpaqueHost(host)
      /\ ValidPort(port)

RECURSIVE SkipSlashes(_)
SkipSlashes(s) == IF s # <<>> /\ Head(s) \in {"/", "\\"} THEN SkipSlashes(Tail(s)) ELSE s

\* new URL(string) does not throw.
ParsesAsUrl(string) ==
  LET n      == SchemeLen(string)
      scheme == ToLowerCase(SubSeq(string, 1, n))
      rest   == SubSeq(string, n + 2, Len(string))
  IN  /\ n > 0
      /\ IF scheme = <<"f","i","l","e">>
            THEN LET r == IF StartsWithAt(rest, <<"/","/">>, 1) THEN SubSeq(rest, 3, Len(rest)) ELSE <<>>
                     h == SubSeq(r, 1, FirstIn(r, {"/", "\\", "?", "#"}) - 1)
                 IN  h = <<>> \/ ValidDomain(h)
          ELSE IF scheme \in SpecialSchemes
            THEN LET r == SkipSlashes(rest)
                 IN  ValidAuthority(SubSeq(r, 1, FirstIn(r, {"/", "\\", "?", "#"}) - 1), TRUE)
          ELSE IF StartsWithAt(rest, <<"/","/">>, 1)
            THEN LET r == SubSeq(rest, 3, Len(rest))
                 IN  ValidAuthority(SubSeq(r, 1, FirstIn(r, {"/", "?", "#"}) - 1), FALSE)
          ELSE TRUE

\* A faulty isValidUrl, which accepts every string (the properties of input
\* validation are tested against it).
AcceptsAnyString(string) == TRUE

\* isValidUrl(string): try { new URL(string); return true } catch { return false }
isValidUrl(string) == ParsesAsUrl(string)

(***************************************************************************)
(* JavaScript values obtained from JSON, and JSON.parse on the characters. *)
(* Strings have no escapes and numbers are integers in the model's bodies. *)
(***************************************************************************)
Undefined == [t |-> "undefined"]

JNull == [t |-> "null"]

JBool(b) == [t |-> "bool", b |-> b]

JNum(n) == [t |-> "num", n |-> n]

JStr(s) == [t |-> "str", s |-> s]

\* e: the elements in order
JArr(e) == [t |-> "arr", e |-> e]

\* m: the members <<key, value>> in property order
JObj(m) == [t |-> "obj", m |-> m]

\* A key that is an array index ("0", "7", "12"): such keys come first in
\* property order, ascending.
IsIndexKey(k) == IsNumber(k) /\ (k = <<"0">> \/ Head(k) # "0") /\ Len(k) <= 9

\* Position at which a new key k is inserted among the members m.
InsertAt(m, k) ==
  IF IsIndexKey(k)
  THEN 1 + Cardinality({j \in 1..Len(m) : IsIndexKey(m[j][1]) /\ StrToNum(m[j][1]) < StrToNum(k)})
  ELSE Len(m) + 1

\* A variant of ObjSet that lists a new key before the older ones.
ObjSetFirst(m, k, v) ==
  IF \E j \in 1..Len(m) : m[j][1] = k
  THEN [j \in 1..Len(m) |-> IF m[j][1] = k THEN <<k, v>> ELSE m[j]]
  ELSE << <<k, v>> >> \o m

\* obj[k] = v while parsing: a repeated key keeps its place and takes the
\* later value.
ObjSet(m, k, v) ==
  IF \E j \in 1..Len(m) : m[j][1] = k
  THEN [j \in 1..Len(m) |-> IF m[j][1] = k THEN <<k, v>> ELSE m[j]]
  ELSE LET at == InsertAt(m, k) IN SubSeq(m, 1, at - 1) \o << <<k, v>> >> \o SubSeq(m, at, Len(m))

RECURSIVE SkipWs(_, _)
SkipWs(s, i) == IF i <= Len(s) /\ s[i] \in WhiteSpace THEN SkipWs(s, i + 1) ELSE i

Fail == [ok |-> FALSE, v |-> Undefined, i |-> 0]

Got(v, i) == [ok |-> TRUE, v |-> v, i |-> i]

\* A string token starting at the quote s[i].
ParseString(s, i) ==
  LET rest  == SubSeq(s, i + 1, Len(s))
      close == FirstIn(rest, {"\""})
  IN  IF i <= Len(s) /\ s[i] = "\"" /\ close <= Len(rest) /\ \A k \in 1..(close - 1) : rest[k] # "\\"
      THEN Got(SubSeq(rest, 1, close - 1), i + close + 1)
      ELSE Fail

\* A number token starting at s[i]: digits without a leading zero.
ParseNumber(s, i) ==
  LET rest == SubSeq(s, i, Len(s))
      n    == FirstIn(rest, {c \in {rest[k] : k \in 1..Len(rest)} : c \notin Digit}) - 1
      ds   == SubSeq(rest, 1, n)
  IN  IF n >= 1 /\ n <= 9 /\ (n = 1 \/ Head(ds) # "0") THEN Got(JNum(StrToNum(ds)), i + n) ELSE Fail

RECURSIVE ParseValue(_, _)
RECURSIVE ParseElements(_, _, _)
RECURSIVE ParseMembers(_, _, _)
\* The value starting at s[i], after white space.
ParseValue(s, i0) ==
  LET i == SkipWs(s, i0)
  IN  IF i > Len(s) THEN Fail
      ELSE IF s[i] = "{" THEN (LET j == SkipWs(s, i + 1) IN IF j <= Len(s) /\ s[j] = "}" THEN Got(JObj(<<>>), j + 1) ELSE ParseMembers(s, j, <<>>))
      ELSE IF s[i] = "[" THEN (LET j == SkipWs(s, i + 1) IN IF j <= Len(s) /\ s[j] = "]" THEN Got(JArr(<<>>), j + 1) ELSE ParseElements(s, j, <<>>))
      ELSE IF s[i] = "\"" THEN (LET r == ParseString(s, i) IN IF r.ok THEN Got(JStr(r.v), r.i) ELSE Fail)
      ELSE IF StartsWithAt(s, <<"t","r","u","e">>, i) THEN Got(JBool(TRUE), i + 4)
      ELSE IF StartsWithAt(s, <<"f","a","l","s","e">>, i) THEN Got(JBool(FALSE), i + 5)
      ELSE IF StartsWithAt(s, <<"n","u","l","l">>, i) THEN Got(JNull, i + 4)
      ELSE ParseNumber(s, i)

\* value ("," value)* "]" with the elements before it in acc
ParseElements(s, i, acc) ==
  LET r == ParseValue(s, i)
      j == SkipWs(s, r.i)
  IN  IF ~r.ok \/ j > Len(s) THEN Fail
      ELSE IF s[j] = "]" THEN Got(JArr(Append(acc, r.v)), j + 1)
      ELSE IF s[j] = "," THEN ParseElements(s, j + 1, Append(acc, r.v))
      ELSE Fail

\* string ":" value ("," string ":" value)* "}" with the members before it in acc
ParseMembers(s, i0, acc) ==
  LET i == SkipWs(s, i0)
      k == ParseString(s, i)
      c == SkipWs(s, k.i)
      r == ParseValue(s, c + 1)
      j == SkipWs(s, r.i)
  IN  IF ~k.ok \/ c > Len(s) \/ s[c] # ":" THEN Fail
      ELSE IF ~r.ok \/ j > Len(s) THEN Fail
      ELSE IF s[j] = "}" THEN Got(JObj(ObjSet(acc, k.v, r.v)), j + 1)
      ELSE IF s[j] = "," THEN ParseMembers(s, j + 1, ObjSet(acc, k.v, r.v))
      ELSE Fail

\* JSON.parse(text): ok = FALSE when it throws SyntaxError.
JSONParse(text) ==
  LET r == ParseValue(text, 1)
  IN  IF r.ok /\ SkipWs(text, r.i) = Len(text) + 1 THEN [ok |-> TRUE, v |-> r.v] ELSE [ok |-> FALSE, v |-> Undefined]

\* Truthiness of a value: !!v
Truthy(v) ==
  CASE v.t = "undefined" -> FALSE
    [] v.t = "null" -> FALSE
    [] v.t = "bool" -> v.b
    [] v.t = "num" -> v.n # 0
    [] v.t = "str" -> v.s # <<>>
    [] OTHER -> TRUE

\* v[key] for a key that is no array index and not "length": the member of
\* an object, undefined on the other values. (On null and undefined the
\* access throws; callers test Nullish first.)
GetProp(v, key) ==
  IF v.t = "obj" /\ \E j \in 1..Len(v.m) : v.m[j][1] = key
  THEN v.m[CHOOSE j \in 1..Len(v.m) : v.m[j][1] = key][2]
  ELSE Undefined

Nullish(v) == v.t \in {"undefined", "null"}

\* JSON.stringify(v, null, 2) of a value obtained from JSON, at indentation
\* level d.
RECURSIVE Stringify(_, _)
RECURSIVE StringifyItems(_, _, _)
Spaces(n) == [k \in 1..n |-> " "]

Stringify(v, d) ==
  CASE v.t = "null" -> <<"n","u","l","l">>
    [] v.t = "bool" -> (IF v.b THEN <<"t","r","u","e">> ELSE <<"f","a","l","s","e">>)
    [] v.t = "num" -> NumToStr(v.n)
    [] v.t = "str" -> <<"\"">> \o v.s \o <<"\"">>
    [] v.t = "arr" -> (IF v.e = <<>> THEN <<"[","]">> ELSE <<"[","\n">> \o StringifyItems([k \in 1..Len(v.e) |-> <<<<>>, v.e[k]>>], d + 2, FALSE) \o <<"\n">> \o Spaces(d) \o <<"]">>)
    [] v.t = "obj" -> (IF v.m = <<>> THEN <<"{","}">> ELSE <<"{","\n">> \o StringifyItems(v.m, d + 2, TRUE) \o <<"\n">> \o Spaces(d) \o <<"}">>)

\* The members or elements, one per line, separated by commas.
StringifyItems(items, d, keyed) ==
  LET it   == Head(items)
      line == Spaces(d) \o (IF keyed THEN <<"\"">> \o it[1] \o <<"\"", ":", " ">> ELSE <<>>) \o Stringify(it[2], d)
  IN  IF Len(items) = 1 THEN line ELSE line \o <<",", "\n">> \o StringifyItems(Tail(items), d, keyed)

(***************************************************************************)
(* Validation                                                              *)
(***************************************************************************)
RESOURCE_TYPE == <<"r","e","s","o","u","r","c","e","T","y","p","e">>

CAPABILITY_STATEMENT == <<"C","a","p","a","b","i","l","i","t","y","S","t","a","t","e","m","e","n","t">>

FHIR_VERSION == <<"f","h","i","r","V","e","r","s","i","o","n">>

\* A faulty isValidCapabilityStatement, which does not look at resourceType
\* (the properties of validation are tested against it).
ChecksVersionOnly(data) == Truthy(data) /\ Truthy(GetProp(data, FHIR_VERSION))

\* isValidCapabilityStatement(data): the truthiness of
\*   data && data.resourceType === 'CapabilityStatement' && data.fhirVersion
isValidCapabilityStatement(data) ==
  /\ Truthy(data)
  /\ GetProp(data, RESOURCE_TYPE) = JStr(CAPABILITY_STATEMENT)
  /\ Truthy(GetProp(data, FHIR_VERSION))

(***************************************************************************)
(* The renderers.  A tab's markup is modelled by the values interpolated   *)
(* into it.  A renderer returns ok = FALSE with the TypeError's message    *)
(* when it throws.  The members read are those that occur in the model's   *)
(* documents: name, fhirVersion, contact (elements with name), rest (first *)
(* element with resource, elements with type).                             *)
(***************************************************************************)
Rendered(html) == [ok |-> TRUE, html |-> html, message |-> <<>>]

Threw(message) == [ok |-> FALSE, html |-> [k |-> "none"], message |-> message]

\* x || fallback
OrElse(x, fallback) == IF Truthy(x) THEN x ELSE fallback

\* v.length
LengthOf(v) ==
  CASE v.t = "arr" -> JNum(Len(v.e))
    [] v.t = "str" -> JNum(Len(v.s))
    [] OTHER -> GetProp(v, <<"l","e","n","g","t","h">>)

\* v?.[0]
First(v) ==
  CASE v.t = "arr" -> (IF v.e = <<>> THEN Undefined ELSE v.e[1])
    [] v.t = "str" -> (IF v.s = <<>> THEN Undefined ELSE JStr(<<v.s[1]>>))
    [] OTHER -> GetProp(v, <<"0">>)

\* v?.key
OptProp(v, key) == IF Nullish(v) THEN Undefined ELSE GetProp(v, key)

NAME == <<"n","a","m","e">>

CONTACT == <<"c","o","n","t","a","c","t">>

REST == <<"r","e","s","t">>

RESOURCE == <<"r","e","s","o","u","r","c","e">>

TYPE == <<"t","y","p","e">>

\* renderContactInfo(contacts), lines 242-291
renderContactInfo(contacts) ==
  IF ~Truthy(contacts) \/ LengthOf(contacts) = JNum(0) THEN Rendered([k |-> "contacts", names |-> <<>>])
  ELSE IF contacts.t # "arr" THEN Threw(<<"c","o","n","t","a","c","t","s",".","f","o","r","E","a","c","h"," ","i","s"," ","n","o","t"," ","a"," ","f","u","n","c","t","i","o","n">>)
  ELSE IF \E j \in 1..Len(contacts.e) : Nullish(contacts.e[j]) THEN Threw(<<"C","a","n","n","o","t"," ","r","e","a","d"," ","p","r","o","p","e","r","t","i","e","s"," ","o","f"," ","n","u","l","l"," ","(","r","e","a","d","i","n","g"," ","'","n","a","m","e","'",")">>)
  ELSE Rendered([k |-> "contacts", names |-> [j \in 1..Len(contacts.e) |-> GetProp(contacts.e[j], NAME)]])

\* renderOverview(), lines 200-240
renderOverview(data) ==
  LET c == renderContactInfo(GetProp(data, CONTACT))
  IN  IF ~c.ok THEN c
      ELSE Rendered([k |-> "overview", name |-> OrElse(GetProp(data, NAME), JStr(<<"N","o","t"," ","s","p","e","c","i","f","i","e","d">>)), fhirVersion |-> GetProp(data, FHIR_VERSION), contact |-> c.html])

\* this.capabilityData.rest?.[0]
Rest0(data) == LET rest == GetProp(data, REST) IN IF Nullish(rest) THEN Undefined ELSE First(rest)

\* renderResources(), lines 293-346
renderResources(data) ==
  LET resources == OrElse(OptProp(Rest0(data), RESOURCE), JArr(<<>>))
  IN  IF LengthOf(resources) = JNum(0) THEN Rendered([k |-> "message", text |-> "No resources found in this CapabilityStatement."])
      ELSE IF resources.t # "arr" THEN Threw(<<"r","e","s","o","u","r","c","e","s",".","m","a","p"," ","i","s"," ","n","o","t"," ","a"," ","f","u","n","c","t","i","o","n">>)
      ELSE IF \E j \in 1..Len(resources.e) : Nullish(resources.e[j]) THEN Threw(<<"C","a","n","n","o","t"," ","r","e","a","d"," ","p","r","o","p","e","r","t","i","e","s"," ","o","f"," ","n","u","l","l"," ","(","r","e","a","d","i","n","g"," ","'","i","n","t","e","r","a","c","t","i","o","n","'",")">>)
      ELSE Rendered([k |-> "resources", types |-> [j \in 1..Len(resources.e) |-> GetProp(resources.e[j], TYPE)]])

\* rest.resource?.<method>(...) throws when resource is neither nullish nor an
\* array, and when an element whose members the callback reads is nullish.
ResourceCallThrows(rest, method) ==
  LET resource == GetProp(rest, RESOURCE)
  IN  IF Nullish(resource) THEN <<>>
      ELSE IF resource.t # "arr" THEN <<"r","e","s","t",".","r","e","s","o","u","r","c","e",".">> \o method \o <<" ","i","s"," ","n","o","t"," ","a"," ","f","u","n","c","t","i","o","n">>
      ELSE IF \E j \in 1..Len(resource.e) : Nullish(resource.e[j]) THEN <<"C","a","n","n","o","t"," ","r","e","a","d"," ","p","r","o","p","e","r","t","i","e","s"," ","o","f"," ","n","u","l","l">>
      ELSE <<>>

\* renderInteractions(), lines 348-395
renderInteractions(data) ==
  LET rest == Rest0(data)
  IN  IF ~Truthy(rest) THEN Rendered([k |-> "message", text |-> "No REST interface information found."])
      ELSE IF ResourceCallThrows(rest, <<"f","o","r","E","a","c","h">>) # <<>> THEN Threw(ResourceCallThrows(rest, <<"f","o","r","E","a","c","h">>))
      ELSE Rendered([k |-> "interactions", system |-> "None specified"])

\* renderOperations(), lines 397-456
renderOperations(data) ==
  LET rest == Rest0(data)
  IN  IF Nullish(rest) THEN Rendered([k |-> "message", text |-> "No operations found in this CapabilityStatement."])
      ELSE IF ResourceCallThrows(rest, <<"s","o","m","e">>) # <<>> THEN Threw(ResourceCallThrows(rest, <<"s","o","m","e">>))
      ELSE Rendered([k |-> "message", text |-> "No operations found in this CapabilityStatement."])

\* renderSearchParameters(), lines 458-496
renderSearchParameters(data) ==
  LET resources == OrElse(OptProp(Rest0(data), RESOURCE), JArr(<<>>))
  IN  IF resources.t # "arr" THEN Threw(<<"r","e","s","o","u","r","c","e","s",".","f","i","l","t","e","r"," ","i","s"," ","n","o","t"," ","a"," ","f","u","n","c","t","i","o","n">>)
      ELSE IF \E j \in 1..Len(resources.e) : Nullish(resources.e[j]) THEN Threw(<<"C","a","n","n","o","t"," ","r","e","a","d"," ","p","r","o","p","e","r","t","i","e","s"," ","o","f"," ","n","u","l","l"," ","(","r","e","a","d","i","n","g"," ","'","s","e","a","r","c","h","P","a","r","a","m","'",")">>)
      ELSE Rendered([k |-> "message", text |-> "No search parameters found in this CapabilityStatement."])

\* renderSecurity(), lines 498-532
renderSecurity(data) == Rendered([k |-> "message", text |-> "No security information found in this CapabilityStatement."])

\* renderRawData(), lines 534-542
renderRawData(data) == Rendered([k |-> "raw", json |-> Stringify(data, 0)])

Tabs == <<"overview", "resources", "interactions", "operations", "search", "security", "raw">>

RenderTab(tab, data) ==
  CASE tab = "overview" -> renderOverview(data)
    [] tab = "resources" -> renderResources(data)
    [] tab = "interactions" -> renderInteractions(data)
    [] tab = "operations" -> renderOperations(data)
    [] tab = "search" -> renderSearchParameters(data)
    [] tab = "security" -> renderSecurity(data)
    [] tab = "raw" -> renderRawData(data)

\* Number of renderers that run to completion before the first one throws
\* (7 when none throws).
RenderedCount(data) == Cardinality({n \in 1..Len(Tabs) : \A j \in 1..n : RenderTab(Tabs[j], data).ok})

(***************************************************************************)
(* Messages                                                                *)
(***************************************************************************)
\* line 46
MSG_EMPTY_URL == <<"P","l","e","a","s","e"," ","e","n","t","e","r"," ","a"," ","v","a","l","i","d"," ","F","H","I","R"," ","C","a","p","a","b","i","l","i","t","y","S","t","a","t","e","m","e","n","t"," ","U","R","L">>

\* line 51
MSG_URL_FORMAT == <<"P","l","e","a","s","e"," ","e","n","t","e","r"," ","a"," ","v","a","l","i","d"," ","U","R","L"," ","f","o","r","m","a","t">>

\* line 110
MSG_NOT_CAPABILITY == <<"T","h","e"," ","r","e","s","p","o","n","s","e"," ","d","o","e","s"," ","n","o","t"," ","a","p","p","e","a","r"," ","t","o"," ","b","e"," ","a"," ","v","a","l","i","d"," ","F","H","I","R"," ","C","a","p","a","b","i","l","i","t","y","S","t","a","t","e","m","e","n","t">>

\* line 103
MSG_HTML == <<"T","h","e"," ","s","e","r","v","e","r"," ","r","e","t","u","r","n","e","d"," ","a","n"," ","H","T","M","L"," ","p","a","g","e"," ","i","n","s","t","e","a","d"," ","o","f"," ","J","S","O","N","."," ","T","h","i","s"," ","m","i","g","h","t"," ","i","n","d","i","c","a","t","e"," ","t","h","e"," ","U","R","L"," ","i","s"," ","i","n","c","o","r","r","e","c","t"," ","o","r"," ","t","h","e"," ","s","e","r","v","e","r"," ","i","s"," ","n","o","t"," ","r","e","s","p","o","n","d","i","n","g"," ","p","r","o","p","e","r","l","y",".">>

\* line 105
MSG_INVALID_JSON == <<"I","n","v","a","l","i","d"," ","J","S","O","N"," ","r","e","s","p","o","n","s","e"," ","f","r","o","m"," ","s","e","r","v","e","r">>

\* lines 123-131 (the first line of the advisory text; the static lines after
\* it are left out)
MSG_NETWORK == <<"N","e","t","w","o","r","k"," ","e","r","r","o","r",":"," ","U","n","a","b","l","e"," ","t","o"," ","f","e","t","c","h"," ","d","a","t","a"," ","f","r","o","m"," ","t","h","e"," ","F","H","I","R"," ","s","e","r","v","e","r","."," ","T","h","i","s"," ","m","i","g","h","t"," ","b","e"," ","d","u","e"," ","t","o",":">>

\* lines 133-138 (the first line of the advisory text; the static lines after
\* it are left out)
MSG_BOTH_FAILED == <<"B","o","t","h"," ","d","i","r","e","c","t"," ","c","o","n","n","e","c","t","i","o","n"," ","a","n","d"," ","p","r","o","x","y"," ","f","a","i","l","e","d","."," ","T","h","e"," ","F","H","I","R"," ","s","e","r","v","e","r"," ","m","i","g","h","t"," ","b","e",":">>

\* line 94: `Proxy request failed: HTTP ${response.status}: ${response.statusText}`
ProxyFailedMessage(status, statusText) == <<"P","r","o","x","y"," ","r","e","q","u","e","s","t"," ","f","a","i","l","e","d",":"," ","H","T","T","P"," ">> \o NumToStr(status) \o <<":"," ">> \o statusText

\* lines 119-139: the text shown for a caught error with this message
ErrorMessageFor(message) ==
  IF Includes(message, <<"F","a","i","l","e","d"," ","t","o"," ","f","e","t","c","h">>) \/ Includes(message, <<"N","e","t","w","o","r","k","E","r","r","o","r">>) THEN MSG_NETWORK
  ELSE IF Includes(message, <<"P","r","o","x","y"," ","r","e","q","u","e","s","t"," ","f","a","i","l","e","d">>) THEN MSG_BOTH_FAILED
  ELSE message

(***************************************************************************)
(* Request URLs                                                            *)
(***************************************************************************)
FORMAT_JSON == <<"_","f","o","r","m","a","t","=","j","s","o","n">>

\* line 83
proxyUrl == <<"h","t","t","p","s",":","/","/","a","p","i",".","a","l","l","o","r","i","g","i","n","s",".","w","i","n","/","r","a","w","?","u","r","l","=">>

\* line 560
sandboxUrl == <<"h","t","t","p","s",":","/","/","f","h","i","r","r","4","s","a","n","d","b","o","x",".","w","e","b","c","h",".","a","r","t","/","w","e","b","c","h","a","r","t",".","c","g","i","/","f","h","i","r","/","m","e","t","a","d","a","t","a">>

\* lines 66 and 84: `${url}${url.includes('?') ? '&' : '?'}_format=json`
WithFormat(url) == url \o (IF Includes(url, <<"?">>) THEN <<"&">> ELSE <<"?">>) \o FORMAT_JSON

\* line 66: the URL of the direct request
DirectUrl(url) == WithFormat(url)

\* A faulty proxiedUrl, which embeds the target without encoding it (the
\* properties of the relay request are tested against it).
ProxiedRaw(url) == proxyUrl \o WithFormat(url)

\* line 84: proxiedUrl
ProxiedUrl(url) == proxyUrl \o encodeURIComponent(WithFormat(url))

\* response.ok
ResponseOk(status) == status >= 200 /\ status <= 299

(***************************************************************************)
(* The DOM methods of the viewer, on the record d of the page's elements.  *)
(***************************************************************************)
\* lines 162-165
showLoading(d) == [d EXCEPT !.loadingDisplay = "block", !.loadButtonDisabled = TRUE]

\* lines 167-170
hideLoading(d) == [d EXCEPT !.loadingDisplay = "none", !.loadButtonDisabled = FALSE]

\* A showError that also hides the results section.
showErrorAlone(d, message) == [d EXCEPT !.errorText = message, !.errorDisplay = "block", !.resultsDisplay = "none"]

\* lines 172-175
showError(d, message) == [d EXCEPT !.errorText = message, !.errorDisplay = "block"]

\* lines 177-179
hideError(d) == [d EXCEPT !.errorDisplay = "none"]

\* A hideResults that leaves the results section as it is.
leaveResults(d) == d

\* lines 181-183
hideResults(d) == [d EXCEPT !.resultsDisplay = "none"]

\* lines 185-187
showResults(d) == [d EXCEPT !.resultsDisplay = "block"]

(***************************************************************************)
(* Bounds and the inputs of the environment                                *)
(***************************************************************************)
\* Load invocations that may be in flight at the same time.
MaxInFlight == 2

\* What the user types into the URL field.
TypedUrls == { <<>>, <<" "," ">>, <<"n","o","t","-","a","-","u","r","l">>, <<"h","t","t","p",":","/","/">>, <<" ","h","t","t","p",":","/","/","a",".","o","r","g","/","m","?","x","=","1"," ">>, <<"h","t","t","p",":","/","/","a",".","o","r","g","/","m","#","f">> }

\* generatePermalink(), lines 793-803, with value in the URL field: the link
\* it copies (nothing when the field is empty after trimming).
generatePermalink(baseUrl, value) == baseUrl \o <<"?","u","r","l","=">> \o encodeURIComponent(Trim(value))

\* window.location.search of a page opened at this address, without its "?".
LocationSearch(address) == SubSeq(address, FirstIn(address, {"?"}) + 1, Len(address))

\* Field values whose permalink is opened: a URL with a query, and a URL whose
\* path has a percent-escape of its own.
PermalinkUrls == { <<"h","t","t","p",":","/","/","a",".","o","r","g","/","m","?","x","=","1">>, <<"h","t","t","p",":","/","/","a",".","o","r","g","/","m","%","2","3","f">> }

\* The query string of the page's own address when it is opened: none, the
\* one of a permalink, or one written by hand.
PageSearches == { <<>>, <<"u","r","l","=","n","o","t","-","a","-","u","r","l">>, <<"u","r","l","=","%","2","5","z","z">> } \cup { LocationSearch(generatePermalink(<<"h","t","t","p",":","/","/","l","o","c","a","l","h","o","s","t","/">>, u)) : u \in PermalinkUrls }

\* error.message of the TypeError a rejected fetch carries, by browser
\* (Chrome and Edge, Firefox, Safari).
FetchErrors == { <<"F","a","i","l","e","d"," ","t","o"," ","f","e","t","c","h">>, <<"N","e","t","w","o","r","k","E","r","r","o","r"," ","w","h","e","n"," ","a","t","t","e","m","p","t","i","n","g"," ","t","o"," ","f","e","t","c","h"," ","r","e","s","o","u","r","c","e",".">>, <<"L","o","a","d"," ","f","a","i","l","e","d">> }

\* error.message when reading the body of a response fails.
ReadErrors == { <<"n","e","t","w","o","r","k"," ","e","r","r","o","r">> }

\* HTTP statuses of the responses, with their status text.
Statuses == {200, 404}

StatusText(status) == IF status = 200 THEN <<"O","K">> ELSE <<"N","o","t"," ","F","o","u","n","d">>

BODY_VALID == <<"{","\"","r","e","s","o","u","r","c","e","T","y","p","e","\"",":","\"","C","a","p","a","b","i","l","i","t","y","S","t","a","t","e","m","e","n","t","\"",",","\"","f","h","i","r","V","e","r","s","i","o","n","\"",":","\"","4",".","0",".","1","\"","}">>

BODY_VERSION_TRUE == <<"{","\"","r","e","s","o","u","r","c","e","T","y","p","e","\"",":","\"","C","a","p","a","b","i","l","i","t","y","S","t","a","t","e","m","e","n","t","\"",",","\"","f","h","i","r","V","e","r","s","i","o","n","\"",":","t","r","u","e","}">>

BODY_CONTACT_NUMBER == <<"{","\"","r","e","s","o","u","r","c","e","T","y","p","e","\"",":","\"","C","a","p","a","b","i","l","i","t","y","S","t","a","t","e","m","e","n","t","\"",",","\"","f","h","i","r","V","e","r","s","i","o","n","\"",":","\"","4",".","0",".","1","\"",",","\"","c","o","n","t","a","c","t","\"",":","5","}">>

BODY_RESOURCE_ZERO == <<"{","\"","f","h","i","r","V","e","r","s","i","o","n","\"",":","\"","3",".","0",".","2","\"",",","\"","r","e","s","o","u","r","c","e","T","y","p","e","\"",":","\"","C","a","p","a","b","i","l","i","t","y","S","t","a","t","e","m","e","n","t","\"",",","\"","r","e","s","t","\"",":","[","{","\"","r","e","s","o","u","r","c","e","\"",":","0","}","]","}">>

BODY_INDEX_KEY == <<"{","\"","r","e","s","o","u","r","c","e","T","y","p","e","\"",":","\"","C","a","p","a","b","i","l","i","t","y","S","t","a","t","e","m","e","n","t","\"",",","\"","f","h","i","r","V","e","r","s","i","o","n","\"",":","\"","4",".","0",".","1","\"",",","\"","1","\"",":","0","}">>

BODY_PATIENT == <<"{","\"","r","e","s","o","u","r","c","e","T","y","p","e","\"",":","\"","P","a","t","i","e","n","t","\"","}">>

BODY_NO_TYPE == <<"{","\"","f","h","i","r","V","e","r","s","i","o","n","\"",":","\"","4",".","0",".","1","\"","}">>

BODY_NO_VERSION == <<"{","\"","r","e","s","o","u","r","c","e","T","y","p","e","\"",":","\"","C","a","p","a","b","i","l","i","t","y","S","t","a","t","e","m","e","n","t","\"","}">>

BODY_EMPTY_VERSION == <<"{","\"","r","e","s","o","u","r","c","e","T","y","p","e","\"",":","\"","C","a","p","a","b","i","l","i","t","y","S","t","a","t","e","m","e","n","t","\"",",","\"","f","h","i","r","V","e","r","s","i","o","n","\"",":","\"","\"","}">>

BODY_NULL == <<"n","u","l","l">>

BODY_HTML == <<"<","h","t","m","l",">","<","b","o","d","y",">","N","o","t"," ","F","o","u","n","d","<","/","b","o","d","y",">","<","/","h","t","m","l",">">>

BODY_DOCTYPE == <<"<","!","D","O","C","T","Y","P","E"," ","h","t","m","l",">","<","h","t","m","l"," ","l","a","n","g","=","\"","e","n","\"",">","<","/","h","t","m","l",">">>

BODY_DOCTYPE_LOWER == <<"<","!","d","o","c","t","y","p","e"," ","h","t","m","l",">","<","h","t","m","l"," ","l","a","n","g","=","\"","e","n","\"",">","<","/","h","t","m","l",">">>

BODY_TEXT == <<"S","e","r","v","i","c","e"," ","u","n","a","v","a","i","l","a","b","l","e">>

\* The response bodies the servers send.
Bodies == { BODY_VALID, BODY_VERSION_TRUE, BODY_CONTACT_NUMBER, BODY_RESOURCE_ZERO, BODY_INDEX_KEY, BODY_PATIENT, BODY_NO_TYPE, BODY_NO_VERSION, BODY_EMPTY_VERSION, BODY_NULL, BODY_HTML, BODY_DOCTYPE, BODY_DOCTYPE_LOWER, BODY_TEXT, <<>> }

\* The environment of Spec: every input above, and a user who starts a load
\* when none is in flight (as the disabled load button asks).
Sequential == [limit |-> 1, typed |-> TypedUrls, searches |-> PageSearches, fetchErrors |-> FetchErrors, bodies |-> Bodies]

\* The environment of FairSpec: sequential loads on the inputs that reach
\* every way an invocation ends.
Eventual == [limit |-> 1, typed |-> { <<>>, <<" ","h","t","t","p",":","/","/","a",".","o","r","g","/","m","?","x","=","1"," ">> }, searches |-> { <<>>, <<"u","r","l","=","n","o","t","-","a","-","u","r","l">> }, fetchErrors |-> FetchErrors,
             bodies |-> { BODY_VALID, BODY_CONTACT_NUMBER, BODY_RESOURCE_ZERO, BODY_PATIENT, BODY_HTML, BODY_TEXT, <<>> }]

\* The environment of SpecOverlap: loads that overlap, on fewer inputs (the
\* user types the URL of the demo server).
Overlapping == [limit |-> MaxInFlight, typed |-> { sandboxUrl }, searches |-> { <<>> },
                fetchErrors |-> { <<"F","a","i","l","e","d"," ","t","o"," ","f","e","t","c","h">> }, bodies |-> { BODY_VALID, BODY_VERSION_TRUE, BODY_PATIENT }]

\* The values the URL field can hold, and for each its trimmed text and
\* whether that parses as a URL, computed once.
FieldValues == TypedUrls \cup {sandboxUrl} \cup {decodeURIComponent(SearchParamsGet(q, <<"u","r","l">>).value).s : q \in PageSearches}

Trimmed == [value \in FieldValues |-> Trim(value)]

UrlParses == [url \in {Trimmed[value] : value \in FieldValues} |-> isValidUrl(url)]

\* The URLs an invocation on each valid URL requests, computed once.
RequestUrls == [url \in {u \in DOMAIN UrlParses : UrlParses[u]} |-> [direct |-> DirectUrl(url), proxied |-> ProxiedUrl(url)]]

\* JSON.parse of each body and the rendering of each document, computed once.
BodyJson == [b \in Bodies |-> JSONParse(b)]

Documents == {BodyJson[b].v : b \in {x \in Bodies : BodyJson[x].ok}}

TabSet == {Tabs[j] : j \in 1..Len(Tabs)}

Rendering == [data \in Documents |-> [count |-> RenderedCount(data), tabs |-> [tab \in TabSet |-> RenderTab(tab, data)]]]

\* The tab contents v after the renderers ran as r tells: each replaces its
\* tab's markup, the first that throws ends the run (threw = TRUE).
RunRenderers(v, r) ==
  [threw   |-> r.count < Len(Tabs),
   message |-> IF r.count < Len(Tabs) THEN r.tabs[Tabs[r.count + 1]].message ELSE <<>>,
   views   |-> [tab \in TabSet |-> IF \E j \in 1..r.count : Tabs[j] = tab THEN r.tabs[tab].html ELSE v[tab]]]

\* displayCapabilityStatement(), lines 189-198, on the tab contents v, up to
\* showResults(), which its caller below makes when nothing threw.
displayCapabilityStatement(v, data) == RunRenderers(v, Rendering[data])

(***************************************************************************)
(* State                                                                   *)
(***************************************************************************)
VARIABLES listening, capabilityData, dom, inflight, last

vars == <<listening, capabilityData, dom, inflight, last>>

\* listening:      the viewer's event listeners are attached (line 5)
\* capabilityData: this.capabilityData
\* dom:            the page's elements: the value of #fhir-url, the display of
\*                 the loading, error and results sections, the disabled flag
\*                 of #load-button, the text of #error-text, the tabs' markup
\* inflight:       the invocations of loadCapabilityStatement suspended at an
\*                 await, oldest first: pc (the await), raw (the field's value
\*                 when it started), url (the local), direct (how stage 1
\*                 failed), requests (the URLs fetched so far), outstanding
\*                 (the requests not yet completed), overtaken (a later
\*                 invocation displayed its document first)
\* last:           the invocation that returned in the step into this state
\*                 (kind = "none" after any other step): its locals, the
\*                 response it ended on, the terminal calls it made (shown)
\*                 and capabilityData before the step (prev)

EmptyViews == [tab \in TabSet |-> [k |-> "none"]]

\* The page before the DOMContentLoaded handler runs.
InitDom == [urlInput |-> <<>>, loadingDisplay |-> "none", loadButtonDisabled |-> FALSE, errorText |-> <<>>, errorDisplay |-> "none", resultsDisplay |-> "none", views |-> EmptyViews]

NoEvent == [kind |-> "none", raw |-> <<>>, url |-> <<>>, requests |-> <<>>, outstanding |-> {}, direct |-> "none", response |-> "none", status |-> 0, body |-> <<>>, shown |-> <<>>, overtaken |-> FALSE, prev |-> Undefined]

Init ==
  /\ listening = FALSE
  /\ capabilityData = Undefined
  /\ dom = InitDom
  /\ inflight = <<>>
  /\ last = NoEvent

(***************************************************************************)
(* loadCapabilityStatement                                                 *)
(***************************************************************************)
\* A loadCapabilityStatement without its catch and finally: nothing is shown
\* for the error (the properties of error handling are tested against it).
Uncaught(cd, d, message) == [capabilityData |-> cd, dom |-> d, shown |-> <<>>]

\* lines 116-144: the catch shows the text for the caught message and the
\* finally hides the loading indicator; cd is this.capabilityData by then.
\* shown lists the terminal calls made (showResults, showError).
Caught(cd, d, message) == [capabilityData |-> cd, dom |-> hideLoading(showError(d, ErrorMessageFor(message))), shown |-> <<"error">>]

\* lines 113-114 and 142-144: data is assigned and displayed, disp being what
\* displayCapabilityStatement did to the tabs; showResults() when no renderer
\* threw, the catch otherwise.
Displayed(d, data, disp) ==
  IF disp.threw
    THEN Caught(data, [d EXCEPT !.views = disp.views], disp.message)
    ELSE [capabilityData |-> data, dom |-> hideLoading(showResults([d EXCEPT !.views = disp.views])), shown |-> <<"results">>]

\* lines 109-145, once the data or an error is at hand: thrown says lines
\* 65-107 threw message, data is their result otherwise.
Conclude(cd, d, thrown, message, data) ==
  IF thrown THEN Caught(cd, d, message)
  ELSE IF ~isValidCapabilityStatement(data) THEN Caught(cd, d, MSG_NOT_CAPABILITY)
  ELSE Displayed(d, data, displayCapabilityStatement(d.views, data))

\* The sequence s without its k-th element.
Without(s, k) == SubSeq(s, 1, k - 1) \o SubSeq(s, k + 1, Len(s))

\* A faulty return, which drops the document of an invocation that a later
\* one has overtaken (the properties of overlapping loads are tested against
\* it).
ReturnUnlessOvertaken(k, thrown, message, data, response, status, body) ==
  LET inv == inflight[k]
  IN  \E c \in {Conclude(capabilityData, dom, thrown, message, data)} :
      /\ capabilityData' = IF inv.overtaken THEN capabilityData ELSE c.capabilityData
      /\ dom' = IF inv.overtaken THEN hideLoading(dom) ELSE c.dom
      /\ inflight' = Without([j \in 1..Len(inflight) |-> IF j < k /\ c.shown = <<"results">> THEN [inflight[j] EXCEPT !.overtaken = TRUE] ELSE inflight[j]], k)
      /\ last' = [kind |-> "returned", raw |-> inv.raw, url |-> inv.url, requests |-> inv.requests, outstanding |-> inv.outstanding \ {Len(inv.requests)},
                  direct |-> inv.direct, response |-> response, status |-> status, body |-> body,
                  shown |-> c.shown, overtaken |-> inv.overtaken, prev |-> capabilityData]
      /\ UNCHANGED listening

\* Invocation k returns, its last request completed with this response: its
\* frame is gone, and the invocations started before it that are still
\* suspended have been overtaken if it displayed its document.
Return(k, thrown, message, data, response, status, body) ==
  LET inv == inflight[k]
  IN  \E c \in {Conclude(capabilityData, dom, thrown, message, data)} :
      /\ capabilityData' = c.capabilityData
      /\ dom' = c.dom
      /\ inflight' = Without([j \in 1..Len(inflight) |-> IF j < k /\ c.shown = <<"results">> THEN [inflight[j] EXCEPT !.overtaken = TRUE] ELSE inflight[j]], k)
      /\ last' = [kind |-> "returned", raw |-> inv.raw, url |-> inv.url, requests |-> inv.requests, outstanding |-> inv.outstanding \ {Len(inv.requests)},
                  direct |-> inv.direct, response |-> response, status |-> status, body |-> body,
                  shown |-> c.shown, overtaken |-> inv.overtaken, prev |-> capabilityData]
      /\ UNCHANGED listening

\* A faulty fallback, which issues the proxy request while the direct one is
\* still outstanding (the properties of sequencing are tested against it).
FallbackAlongside(inv, how) ==
  [inv EXCEPT !.pc = "fetchProxy", !.direct = how, !.requests = Append(inv.requests, RequestUrls[inv.url].proxied), !.outstanding = inv.outstanding \cup {2}]

\* lines 79-91: stage 1 failed in the way `how`; the direct request is over,
\* the catch issues the proxy request and the invocation is suspended at its
\* await.
Fallback(inv, how) ==
  [inv EXCEPT !.pc = "fetchProxy", !.direct = how, !.requests = Append(inv.requests, RequestUrls[inv.url].proxied), !.outstanding = (inv.outstanding \ {1}) \cup {2}]

\* lines 41-72: the synchronous part of an invocation on the page d (the page
\* after the handler's own changes). Invalid input ends it at once; otherwise
\* it issues the direct request and is suspended at its await. limit bounds
\* the invocations in flight.
loadCapabilityStatement(d, limit) ==
  LET url == Trimmed[d.urlInput]
      rejected(message) ==
        /\ dom' = showError(d, message)
        /\ inflight' = inflight
        /\ last' = [NoEvent EXCEPT !.kind = "rejected", !.raw = d.urlInput, !.url = url, !.shown = <<"error">>, !.prev = capabilityData]
  IN  IF url = <<>> THEN rejected(MSG_EMPTY_URL)
      ELSE IF ~UrlParses[url] THEN rejected(MSG_URL_FORMAT)
      ELSE /\ Len(inflight) < limit
           /\ dom' = hideResults(hideError(showLoading(d)))
           /\ inflight' = Append(inflight, [pc |-> "fetchDirect", raw |-> d.urlInput, url |-> url, direct |-> "none", requests |-> <<RequestUrls[url].direct>>, outstanding |-> {1}, overtaken |-> FALSE])
           /\ last' = NoEvent

(***************************************************************************)
(* Handlers                                                                *)
(***************************************************************************)
\* lines 825-827 and 3-7, 778-791: the page is ready; the viewer is
\* constructed, attaches its listeners and loads the url parameter of the
\* page's address, if there is one. decodeURIComponent may throw, which ends
\* the constructor after the listeners were attached.
DOMContentLoaded(search, limit) ==
  LET fhirUrl == SearchParamsGet(search, <<"u","r","l">>)
      decoded == decodeURIComponent(fhirUrl.value)
  IN  /\ ~listening
      /\ listening' = TRUE
      /\ capabilityData' = JNull
      /\ IF fhirUrl.present /\ fhirUrl.value # <<>> /\ decoded.ok
           THEN loadCapabilityStatement([dom EXCEPT !.urlInput = decoded.s], limit)
           ELSE dom' = dom /\ inflight' = inflight /\ last' = NoEvent

\* lines 11-13: a click on the load button, which a disabled button ignores,
\* with value in the URL field
LoadButtonClick(value, limit) ==
  /\ listening
  /\ ~dom.loadButtonDisabled
  /\ loadCapabilityStatement([dom EXCEPT !.urlInput = value], limit)
  /\ UNCHANGED <<listening, capabilityData>>

\* lines 16-20: Enter in the URL field, with value in it
EnterKey(value, limit) ==
  /\ listening
  /\ loadCapabilityStatement([dom EXCEPT !.urlInput = value], limit)
  /\ UNCHANGED <<listening, capabilityData>>

\* lines 23-25 and 558-567: loadDemoData
DemoButtonClick(limit) ==
  /\ listening
  /\ loadCapabilityStatement([dom EXCEPT !.urlInput = sandboxUrl], limit)
  /\ UNCHANGED <<listening, capabilityData>>

(***************************************************************************)
(* The network settles an awaited promise and the invocation continues     *)
(***************************************************************************)
Suspended(k, pc) == k \in 1..Len(inflight) /\ inflight[k].pc = pc

Continue(k, inv) ==
  /\ inflight' = [inflight EXCEPT ![k] = inv]
  /\ last' = NoEvent
  /\ UNCHANGED <<listening, capabilityData, dom>>

\* line 66: the direct fetch rejects (a network error, a CORS refusal)
DirectFetchRejects(k) ==
  /\ Suspended(k, "fetchDirect")
  /\ Continue(k, Fallback(inflight[k], "network"))

\* lines 66-78: the direct fetch resolves with a response of this status
DirectFetchResponds(k, status) ==
  /\ Suspended(k, "fetchDirect")
  /\ IF ResponseOk(status)
       THEN Continue(k, [inflight[k] EXCEPT !.pc = "readDirect"])
       ELSE Continue(k, Fallback(inflight[k], "status"))

\* A variant of DirectJsonSettles that also falls back when the parsed data
\* is not a CapabilityStatement.
DirectJsonSettlesOrFallsBack(k, body) ==
  /\ Suspended(k, "readDirect")
  /\ LET parsed == BodyJson[body]
     IN  IF parsed.ok /\ isValidCapabilityStatement(parsed.v)
           THEN Return(k, FALSE, <<>>, parsed.v, "body", 200, body)
           ELSE Continue(k, Fallback(inflight[k], "parse"))

\* line 78: response.json() settles with the body read: it resolves with the
\* parsed data, or rejects when the body is not JSON
DirectJsonSettles(k, body) ==
  /\ Suspended(k, "readDirect")
  /\ LET parsed == BodyJson[body]
     IN  IF parsed.ok
           THEN Return(k, FALSE, <<>>, parsed.v, "body", 200, body)
           ELSE Continue(k, Fallback(inflight[k], "parse"))

\* line 78: response.json() rejects because reading the body failed
DirectReadFails(k) ==
  /\ Suspended(k, "readDirect")
  /\ Continue(k, Fallback(inflight[k], "read"))

\* line 86: the proxy fetch rejects
ProxyFetchRejects(k, message) ==
  /\ Suspended(k, "fetchProxy")
  /\ Return(k, TRUE, message, Undefined, "rejected", 0, <<>>)

\* lines 86-97: the proxy fetch resolves with a response of this status
ProxyFetchResponds(k, status) ==
  /\ Suspended(k, "fetchProxy")
  /\ IF ResponseOk(status)
       THEN Continue(k, [inflight[k] EXCEPT !.pc = "readProxy"])
       ELSE Return(k, TRUE, ProxyFailedMessage(status, StatusText(status)), Undefined, "status", status, <<>>)

\* lines 97-106: what JSON.parse(responseText) and its catch yield
ParseProxyText(responseText) ==
  LET parsed == BodyJson[responseText]
  IN  IF parsed.ok THEN [thrown |-> FALSE, message |-> <<>>, data |-> parsed.v]
      ELSE IF Includes(responseText, <<"<","h","t","m","l",">">>) \/ Includes(responseText, <<"<","!","D","O","C","T","Y","P","E">>) THEN [thrown |-> TRUE, message |-> MSG_HTML, data |-> Undefined]
      ELSE [thrown |-> TRUE, message |-> MSG_INVALID_JSON, data |-> Undefined]

\* line 97: response.text() resolves with the body
ProxyTextSettles(k, body) ==
  /\ Suspended(k, "readProxy")
  /\ \E r \in {ParseProxyText(body)} : Return(k, r.thrown, r.message, r.data, "body", 200, body)

\* line 97: response.text() rejects because reading the body failed
ProxyReadFails(k, message) ==
  /\ Suspended(k, "readProxy")
  /\ Return(k, TRUE, message, Undefined, "unread", 200, <<>>)

\* The steps of the program in the environment env.
NextIn(env) ==
  \/ \E search \in env.searches : DOMContentLoaded(search, env.limit)
  \/ \E value \in env.typed : LoadButtonClick(value, env.limit)
  \/ \E value \in env.typed : EnterKey(value, env.limit)
  \/ DemoButtonClick(env.limit)
  \/ \E k \in 1..env.limit : DirectFetchRejects(k)
  \/ \E k \in 1..env.limit, status \in Statuses : DirectFetchResponds(k, status)
  \/ \E k \in 1..env.limit, body \in env.bodies : DirectJsonSettles(k, body)
  \/ \E k \in 1..env.limit : DirectReadFails(k)
  \/ \E k \in 1..env.limit, message \in env.fetchErrors : ProxyFetchRejects(k, message)
  \/ \E k \in 1..env.limit, status \in Statuses : ProxyFetchResponds(k, status)
  \/ \E k \in 1..env.limit, body \in env.bodies : ProxyTextSettles(k, body)
  \/ \E k \in 1..env.limit, message \in ReadErrors : ProxyReadFails(k, message)

Next == NextIn(Sequential)

Spec == Init /\ [][Next]_vars

NextOverlap == NextIn(Overlapping)

SpecOverlap == Init /\ [][NextOverlap]_vars

\* The promise the oldest invocation awaits settles (with any outcome).
Settles ==
  \/ DirectFetchRejects(1)
  \/ \E status \in Statuses : DirectFetchResponds(1, status)
  \/ \E body \in Bodies : DirectJsonSettles(1, body)
  \/ DirectReadFails(1)
  \/ \E message \in FetchErrors : ProxyFetchRejects(1, message)
  \/ \E status \in Statuses : ProxyFetchResponds(1, status)
  \/ \E body \in Bodies : ProxyTextSettles(1, body)
  \/ \E message \in ReadErrors : ProxyReadFails(1, message)

\* Spec, with every awaited promise settling in the end: a fetch resolves or
\* rejects, and so does the reading of a body.
NextEventual == NextIn(Eventual)

FairSpec == Init /\ [][NextEventual]_vars /\ WF_vars(Settles)

(***************************************************************************)
(* Properties                                                              *)
(***************************************************************************)
\* The invocation that ended in the step into this state ended in Success
\* (the document is displayed) or in Failure (an error is shown).
Success == last.kind = "returned" /\ last.shown = <<"results">>

Failure == last.kind \in {"rejected", "returned"} /\ last.shown = <<"error">>

\* The string is empty after trimming or does not parse as an absolute URL.
InvalidInput(raw) == Trim(raw) = <<>> \/ ~ParsesAsUrl(Trim(raw))

\* The invocation that ended got its data from this stage's 2xx response.
FromDirect == last.kind = "returned" /\ last.direct = "none"

FromProxy == last.kind = "returned" /\ last.direct # "none" /\ last.response = "body"

\* JSON.parse of the body the invocation that ended has read.
LastJson == BodyJson[last.body]

\* resourceType is absent or different from "CapabilityStatement", or
\* fhirVersion is absent or empty.
SchemaMismatch(data) ==
  \/ GetProp(data, RESOURCE_TYPE) # JStr(CAPABILITY_STATEMENT)
  \/ GetProp(data, FHIR_VERSION) \in {Undefined, JStr(<<>>)}

\* C1: an invocation on an input that is empty after trimming or does not
\* parse as an absolute URL ends at once with an error message shown (the
\* message of line 46 or of line 51) and has issued no request: it is never
\* among the invocations with a request in flight.
C1_InvalidInputRejected ==
  /\ \A k \in 1..Len(inflight) : ~InvalidInput(inflight[k].raw)
  /\ (last.kind # "none" /\ InvalidInput(last.raw)) =>
       /\ last.kind = "rejected"
       /\ last.requests = <<>>
       /\ Failure
       /\ dom.errorDisplay = "block"
       /\ dom.errorText = (IF Trim(last.raw) = <<>> THEN MSG_EMPTY_URL ELSE MSG_URL_FORMAT)

\* An invocation on a non-empty string that is not a URL has just ended.
C1_Witness == last.kind = "rejected" /\ Trim(last.raw) # <<>> /\ ~ParsesAsUrl(Trim(last.raw)) /\ dom.errorText = MSG_URL_FORMAT

\* C2: when the direct request returns a 2xx status and a body that parses
\* as JSON and passes the validation, the invocation ends in Success and has
\* issued the direct request only.
C2_DirectValidSucceeds ==
  (FromDirect /\ ResponseOk(last.status) /\ LastJson.ok /\ isValidCapabilityStatement(LastJson.v)) =>
    (Success /\ Len(last.requests) = 1)

\* The target of a relay request: the decoded url parameter of its query.
RelayTarget(request) == SearchParamsGet(SubSeq(request, FirstIn(request, {"?"}) + 1, Len(request)), <<"u","r","l">>)

\* The request goes to the relay endpoint and carries as its only parameter
\* the percent-encoded target.
IsRelayRequestFor(request, target) ==
  /\ SubSeq(request, 1, Len(proxyUrl)) = proxyUrl
  /\ \A j \in (Len(proxyUrl) + 1)..Len(request) : request[j] \in UriUnreserved \cup {"%"}
  /\ RelayTarget(request).present
  /\ RelayTarget(request).value = target

\* C3: an invocation whose stage 1 failed (the fetch rejected, the status was
\* not 2xx, the body did not parse as JSON or could not be read) has issued
\* exactly one request after the direct one, to the relay endpoint, with the
\* trimmed URL plus _format=json percent-encoded as its url parameter; an
\* invocation ends without it only on a direct 2xx response with a JSON body.
C3_OneFallbackOnStage1Failure ==
  /\ \A k \in 1..Len(inflight) :
       IF inflight[k].pc \in {"fetchDirect", "readDirect"}
         THEN inflight[k].direct = "none" /\ Len(inflight[k].requests) = 1
         ELSE /\ inflight[k].direct \in {"network", "status", "parse", "read"}
              /\ Len(inflight[k].requests) = 2
              /\ IsRelayRequestFor(inflight[k].requests[2], WithFormat(Trim(inflight[k].raw)))
  /\ last.kind = "returned" =>
       IF last.direct = "none"
         THEN Len(last.requests) = 1 /\ ResponseOk(last.status) /\ last.response = "body" /\ LastJson.ok
         ELSE Len(last.requests) = 2 /\ IsRelayRequestFor(last.requests[2], WithFormat(Trim(last.raw)))

\* An invocation on a URL with a query of its own fell back to the relay
\* because the direct body was not JSON, and has ended.
C3_Witness == last.kind = "returned" /\ last.direct = "parse" /\ Includes(last.url, <<"?">>) /\ Len(last.requests) = 2

\* C4: an invocation that parsed a response, direct or through the relay, in
\* which resourceType is absent or not "CapabilityStatement", or fhirVersion
\* is absent or empty, ends in Failure with the message of line 110, never in
\* Success.
C4_SchemaMismatchFails ==
  ((FromDirect \/ FromProxy) /\ LastJson.ok /\ SchemaMismatch(LastJson.v)) =>
    (Failure /\ dom.errorText = MSG_NOT_CAPABILITY /\ dom.errorDisplay = "block")

\* The relay returned a Patient after the direct fetch was rejected.
C4_Witness == FromProxy /\ last.direct = "network" /\ last.body = BODY_PATIENT /\ Failure /\ dom.errorText = MSG_NOT_CAPABILITY

\* C5: an invocation ends in Success only on a document whose resourceType
\* is the string "CapabilityStatement" and whose fhirVersion is a non-empty
\* string.
C5_SuccessNeedsStringVersion ==
  Success =>
    /\ LastJson.ok
    /\ GetProp(LastJson.v, RESOURCE_TYPE) = JStr(CAPABILITY_STATEMENT)
    /\ GetProp(LastJson.v, FHIR_VERSION).t = "str"
    /\ GetProp(LastJson.v, FHIR_VERSION) # JStr(<<>>)

\* C6: an invocation that ends has made exactly one terminal call, showResults
\* (Success) or showError (Failure), never both and never neither, and what it
\* called is on display; and every invocation suspended at an await ends,
\* whatever the outcomes of its network calls.
C6_OneTerminalResult ==
  /\ [](last.kind \in {"rejected", "returned"} =>
         /\ Len(last.shown) = 1
         /\ Success \/ Failure
         /\ Success => dom.resultsDisplay = "block"
         /\ Failure => dom.errorDisplay = "block" /\ dom.errorText # <<>>)
  /\ (inflight # <<>>) ~> (last.kind = "returned")

\* Both network calls of an invocation were rejected and it has ended with the
\* error shown.
C6_Witness == last.kind = "returned" /\ last.direct = "network" /\ last.response = "rejected" /\ Failure /\ dom.errorDisplay = "block"

\* C7: a step in which an invocation ends in Failure leaves capabilityData
\* and the tabs' contents as they were, and capabilityData changes only in a
\* step in which an invocation ends in Success (the steps of the running
\* viewer, after its constructor).
C7_FailureChangesNothing ==
  [][listening =>
       /\ (last'.kind \in {"rejected", "returned"} /\ last'.shown = <<"error">>) => (capabilityData' = capabilityData /\ dom'.views = dom.views)
       /\ capabilityData' # capabilityData => (last'.kind = "returned" /\ last'.shown = <<"results">>)]_vars

\* What an invocation's record says of its requests: at most two, the direct
\* one first and the relay one only once stage 1 has failed and the direct
\* request is over, at most one of them outstanding, none once it has ended.
Sequenced(r, ended) ==
  /\ Len(r.requests) \in {1, 2}
  /\ r.requests[1] = DirectUrl(r.url)
  /\ Len(r.requests) = 2 => (r.direct # "none" /\ 1 \notin r.outstanding /\ r.requests[2] = ProxiedUrl(r.url))
  /\ r.outstanding \subseteq 1..Len(r.requests)
  /\ Cardinality(r.outstanding) <= 1
  /\ ended => r.outstanding = {}

\* C8: an invocation issues at most two requests, one after the other: the
\* relay request only after the direct request has completed with a failure,
\* never both outstanding, and no request after the relay attempt.
C8_AtMostTwoSequentialRequests ==
  /\ \A k \in 1..Len(inflight) : Sequenced(inflight[k], FALSE)
  /\ last.kind = "returned" => Sequenced(last, TRUE)
  /\ last.kind = "rejected" => last.requests = <<>>

\* The relay answered with a failing status and the invocation has ended
\* without a third request.
C8_Witness == last.kind = "returned" /\ last.response = "status" /\ ~ResponseOk(last.status) /\ Len(last.requests) = 2 /\ last.outstanding = {}

\* C9: results are applied in completion order: an invocation that ends in
\* Success leaves its own document stored and displayed, also when an
\* invocation started after it has ended in Success before it.
C9_CompletionOrder ==
  Success =>
    /\ capabilityData = LastJson.v
    /\ dom.resultsDisplay = "block"
    /\ dom.views = displayCapabilityStatement(EmptyViews, LastJson.v).views

\* An older invocation has ended in Success after a newer one did, and has
\* replaced the newer one's document by its own.
C9_Witness == Success /\ last.overtaken /\ last.prev # capabilityData /\ isValidCapabilityStatement(last.prev) /\ capabilityData = LastJson.v

\* The text has the substring <html> or a doctype declaration (which HTML
\* reads in any letter case).
HasHtmlMarkup(text) == Includes(text, <<"<","h","t","m","l",">">>) \/ Includes(ToLowerCase(text), <<"<","!","d","o","c","t","y","p","e">>)

\* C10: when the relay's 2xx body is not JSON, the error shown is the one of
\* line 103 (an HTML page) if the body has <html> or a doctype declaration,
\* and the one of line 105 (invalid JSON) otherwise.
C10_HtmlBodyClassified ==
  (FromProxy /\ ResponseOk(last.status) /\ ~LastJson.ok) =>
    dom.errorText = (IF HasHtmlMarkup(last.body) THEN MSG_HTML ELSE MSG_INVALID_JSON)

\* C11: a load that fails because of a non-2xx status (the relay's response,
\* the last one the invocation received, has a status outside 200-299) shows
\* a message carrying the status code and the status text of that response.
C11_HttpErrorCarriesStatus ==
  (last.kind = "returned" /\ Failure /\ last.response = "status") =>
    /\ ~ResponseOk(last.status)
    /\ Includes(dom.errorText, NumToStr(last.status))
    /\ Includes(dom.errorText, StatusText(last.status))

\* The invocation that ended shows the network advisory of lines 123-131.
NetworkFailure == last.kind = "returned" /\ Failure /\ dom.errorText = MSG_NETWORK

\* C12: a load ends with the network advisory exactly when both of its
\* requests failed at the transport level: it does when both fetches were
\* rejected, and when it does, the direct request had no usable response
\* because its fetch was rejected or its body could not be read, and likewise
\* the relay request; a response received from the relay never leads to it.
C12_NetworkFailureIffBothTransport ==
  last.kind = "returned" =>
    /\ (last.direct = "network" /\ last.response = "rejected") => NetworkFailure
    /\ NetworkFailure => (last.direct \in {"network", "read"} /\ last.response \in {"rejected", "unread"})
    /\ (last.direct = "network" /\ last.response \in {"status", "body"}) => ~NetworkFailure

\* The characters of a JSON text that belong to its tokens: the text without
\* the spaces and line breaks outside its strings (the strings of the model
\* have no escaped quote). Two texts with the same tokens have the same
\* members, with the same names and values, in the same order.
JsonSpace == {" ", "\n"}

QuotesBefore(s, i) == Cardinality({j \in 1..(i - 1) : s[j] = "\""})

OutsideString(s, i) == s[i] # "\"" /\ QuotesBefore(s, i) % 2 = 0

Tokens(s) ==
  LET keep == {i \in 1..Len(s) : ~(s[i] \in JsonSpace /\ OutsideString(s, i))}
  IN  [k \in 1..Cardinality(keep) |-> s[CHOOSE i \in keep : Cardinality({j \in keep : j <= i}) = k]]

\* The member names of a JSON text, as <<opening quote, closing quote>>, and
\* for a position the bracket that opens the object or array it is in.
KeyTokens(s) ==
  {p \in (1..Len(s)) \X (1..Len(s)) :
     /\ p[1] < p[2] /\ s[p[1]] = "\"" /\ s[p[2]] = "\""
     /\ QuotesBefore(s, p[1]) % 2 = 0 /\ QuotesBefore(s, p[2]) = QuotesBefore(s, p[1]) + 1
     /\ \E c \in (p[2] + 1)..Len(s) : s[c] = ":" /\ \A j \in (p[2] + 1)..(c - 1) : s[j] \in JsonSpace}

Depth(s, i) == Cardinality({j \in 1..(i - 1) : s[j] \in {"{", "["} /\ OutsideString(s, j)}) - Cardinality({j \in 1..(i - 1) : s[j] \in {"}", "]"} /\ OutsideString(s, j)})

Encloser(s, i) ==
  LET open == {j \in 1..(i - 1) : s[j] \in {"{", "["} /\ OutsideString(s, j) /\ Depth(s, j) = Depth(s, i) - 1}
  IN  IF open = {} THEN 0 ELSE CHOOSE j \in open : \A x \in open : x <= j

KeyText(s, p) == SubSeq(s, p[1] + 1, p[2] - 1)

\* No object of the text repeats a member name, and no member name is an
\* array index in canonical form.
PlainKeys(s) ==
  \A p \in KeyTokens(s) :
    /\ ~IsIndexKey(KeyText(s, p))
    /\ \A q \in KeyTokens(s) : (q # p /\ Encloser(s, q[1]) = Encloser(s, p[1])) => KeyText(s, q) # KeyText(s, p)

WireTokens == [b \in Bodies |-> Tokens(b)]

PlainKeyed == [b \in Bodies |-> PlainKeys(b)]

Serialized == [data \in Documents |-> Tokens(Stringify(data, 0))]

UrlParts(url) ==
  LET hash   == FirstIn(url, {"#"})
      noFrag == SubSeq(url, 1, hash - 1)
      mark   == FirstIn(noFrag, {"?"})
  IN  [path |-> SubSeq(noFrag, 1, mark - 1), hasQuery |-> mark <= Len(noFrag), query |-> SubSeq(noFrag, mark + 1, Len(noFrag)), fragment |-> SubSeq(url, hash, Len(url))]

\* request is url with _format=json added to its query and nothing else
\* changed.
HasFormatMerged(request, url) ==
  /\ SearchParamsGet(UrlParts(request).query, <<"_","f","o","r","m","a","t">>) = [present |-> TRUE, value |-> <<"j","s","o","n">>]
  /\ UrlParts(request).path = UrlParts(url).path
  /\ UrlParts(request).fragment = UrlParts(url).fragment
  /\ UrlParts(request).query = (IF UrlParts(url).hasQuery THEN UrlParts(url).query \o <<"&">> ELSE <<>>) \o FORMAT_JSON

\* C14: the direct request of an invocation on the valid URL u asks for u
\* with _format=json added to its query ("?" when u has no query, "&" when it
\* has one), the same resource otherwise, and the relay request carries that
\* same URL as its target.
C14_FormatMerged ==
  last.kind = "returned" =>
    /\ HasFormatMerged(last.requests[1], last.url)
    /\ Len(last.requests) = 2 => RelayTarget(last.requests[2]) = [present |-> TRUE, value |-> last.requests[1]]

\* C15: the step in which the body of a 2xx direct response is read, parses
\* as JSON and fails the validation (resourceType absent or different,
\* fhirVersion absent or empty) ends the invocation: the message of line 110
\* is shown, the direct request is the only one it has issued, and nothing
\* is left in flight. An invocation's second request follows a failure of its
\* first.
C15_NoFallbackOnSchemaMismatch ==
  [][/\ \A body \in Bodies :
          (BodyJson[body].ok /\ SchemaMismatch(BodyJson[body].v) /\ DirectJsonSettles(1, body)) =>
            /\ last'.kind = "returned" /\ last'.shown = <<"error">>
            /\ dom'.errorText = MSG_NOT_CAPABILITY /\ dom'.errorDisplay = "block"
            /\ last'.requests = <<DirectUrl(last'.url)>>
            /\ inflight' = <<>>
     /\ (last'.kind = "returned" /\ Len(last'.requests) = 2) => last'.direct \in {"network", "status", "parse", "read"}]_vars

\* A direct response with a Patient has ended an invocation in Failure after
\* one request.
C15_Witness == FromDirect /\ last.body = BODY_PATIENT /\ Failure /\ dom.errorText = MSG_NOT_CAPABILITY /\ Len(last.requests) = 1

\* C16: when the page is opened at the permalink generatePermalink makes for
\* the URL u in the field, the handler puts exactly u into the field and
\* starts a load of exactly u.
C16_PermalinkRoundTrip ==
  [][\A u \in PermalinkUrls :
       DOMContentLoaded(LocationSearch(generatePermalink(<<"h","t","t","p",":","/","/","l","o","c","a","l","h","o","s","t","/">>, u)), 1) =>
         /\ dom'.urlInput = u
         /\ Len(inflight') = 1 /\ inflight'[1].raw = u /\ inflight'[1].url = u]_vars

\* C17: the error section and the results section are never displayed
\* together.
C17_ErrorResultsExclusive == ~(dom.errorDisplay = "block" /\ dom.resultsDisplay = "block")

\* C18: the loading indicator is displayed, and the load button disabled,
\* exactly when an invocation is in flight.
C18_LoadingIffInFlight ==
  /\ dom.loadingDisplay = "block" <=> inflight # <<>>
  /\ dom.loadButtonDisabled <=> inflight # <<>>

\* C19: the UI steps of an invocation on a valid URL come in order. In the
\* state in which its direct request has been issued, the loading indicator
\* is displayed, the load button disabled, and the error and results sections
\* are hidden. The loading indicator is hidden only by the step in which an
\* invocation ends, and in the state that step leads to the terminal result
\* is applied: the results section is displayed after a Success, the error
\* section with its message after a Failure.
C19_UiStepOrder ==
  [][/\ Len(inflight') > Len(inflight) =>
          /\ inflight'[Len(inflight')].requests = <<DirectUrl(inflight'[Len(inflight')].url)>>
          /\ inflight'[Len(inflight')].outstanding = {1}
          /\ dom'.loadingDisplay = "block" /\ dom'.loadButtonDisabled
          /\ dom'.errorDisplay = "none" /\ dom'.resultsDisplay = "none"
     /\ (dom.loadingDisplay = "block" /\ dom'.loadingDisplay = "none") => (last'.kind = "returned" /\ Len(inflight') < Len(inflight))
     /\ last'.kind = "returned" =>
          /\ dom'.loadingDisplay = "none" /\ ~dom'.loadButtonDisabled
          /\ last'.shown \in {<<"results">>, <<"error">>}
          /\ last'.shown = <<"results">> => dom'.resultsDisplay = "block"
          /\ last'.shown = <<"error">> => (dom'.errorDisplay = "block" /\ dom'.errorText # <<>>)]_vars

\* A load is in flight after an earlier one displayed its document: the
\* results are hidden and the loading indicator is displayed.
C19_Witness == inflight # <<>> /\ capabilityData # JNull /\ dom.loadingDisplay = "block" /\ dom.resultsDisplay = "none" /\ dom.errorDisplay = "none"

\* C20: in the running viewer, the step of an invocation rejected for invalid
\* input (empty after trimming, or not a URL) shows its message in the error section and leaves
\* the stored document, the tabs, the results section, the loading indicator,
\* the load button and the invocations in flight as they were.
C20_RejectionChangesErrorOnly ==
  [][(listening /\ last'.kind = "rejected") =>
       /\ InvalidInput(last'.raw)
       /\ dom'.errorDisplay = "block" /\ dom'.errorText \in {MSG_EMPTY_URL, MSG_URL_FORMAT}
       /\ capabilityData' = capabilityData
       /\ dom'.views = dom.views
       /\ dom'.resultsDisplay = dom.resultsDisplay
       /\ dom'.loadingDisplay = dom.loadingDisplay
       /\ dom'.loadButtonDisabled = dom.loadButtonDisabled
       /\ inflight' = inflight]_vars

\* An invocation was rejected while another is in flight and an earlier
\* document is stored.
C20_Witness == last.kind = "rejected" /\ inflight # <<>> /\ capabilityData # JNull /\ dom.loadingDisplay = "block" /\ dom.errorDisplay = "block"

=============================================================================
